---- MODULE Spec2Model ----
(***************************************************************************)
(* Model of src/analytics/transcript-scanner.ts: decodeProjectPath,        *)
(* matchesPattern and scanTranscripts.                                     *)
(*                                                                         *)
(* A JavaScript string is modelled as the sequence of its characters, each *)
(* character a one-character TLA+ string, so that slice, replace, split,   *)
(* join, endsWith and the regular expressions are computed on characters.  *)
(***************************************************************************)
EXTENDS Integers, Sequences, FiniteSets, TLC

\* ------------------------------------------------------------------ bounds
\* longest encoded directory name given to decodeProjectPath
MaxNameLen == 6
\* number of directories created (mkdir -p) in the filesystem probed by existsSync
MaxExisting == 2
\* longest root listing and longest listing of a project directory
MaxEntries == 2
MaxFiles == 2
\* longest path and longest pattern given to matchesPattern alone
MaxPathLen == 3
MaxPatLen == 3
\* longest directory name in a pair of names decoded on the same filesystem
MaxPairLen == 4

\* ------------------------------------------------- JavaScript string methods
\* String.prototype.startsWith
startsWith(s, p) == Len(s) >= Len(p) /\ SubSeq(s, 1, Len(p)) = p

\* String.prototype.endsWith
endsWith(s, p) == Len(s) >= Len(p) /\ SubSeq(s, Len(s) - Len(p) + 1, Len(s)) = p

\* String.prototype.slice(n) with 0 <= n
slice(s, n) == SubSeq(s, n + 1, Len(s))

\* String.prototype.replace(/c/g, r): every occurrence of the character c
RECURSIVE replaceAll(_, _, _)
replaceAll(s, c, r) ==
  IF s = <<>> THEN <<>>
  ELSE (IF Head(s) = c THEN r ELSE <<Head(s)>>) \o replaceAll(Tail(s), c, r)

\* String.prototype.split(c) on a one-character separator; ''.split(c) is ['']
RECURSIVE split(_, _)
split(s, c) ==
  IF \E k \in 1..Len(s) : s[k] = c
  THEN LET k == CHOOSE k \in 1..Len(s) : s[k] = c /\ \A m \in 1..(k - 1) : s[m] # c
       IN  <<SubSeq(s, 1, k - 1)>> \o split(SubSeq(s, k + 1, Len(s)), c)
  ELSE <<s>>

\* Array.prototype.join(sep)
RECURSIVE join(_, _)
join(parts, sep) ==
  IF parts = <<>> THEN <<>>
  ELSE IF Len(parts) = 1 THEN parts[1]
  ELSE parts[1] \o sep \o join(Tail(parts), sep)

\* ---------------------------------------------------------------- filesystem
\* A filesystem is the set of its existing entries, each the sequence of its
\* path components; the root directory always exists.  Every entry is a
\* directory (the decoded paths are project directories).
\* Path resolution as the kernel does it for an absolute path: empty components
\* (doubled or trailing separators) are dropped.
Normalize(path) == SelectSeq(split(path, "/"), LAMBDA c : c # <<>>)

\* fs.existsSync on an absolute path
existsSync(path, fs) == Normalize(path) \in (fs \cup {<<>>})

\* ------------------------------------------------------- decodeProjectPath
\* faulty variant of generatePaths: the merge branch is taken before the
\* new-component branch
RECURSIVE generatePathsMergeFirst(_, _, _)
generatePathsMergeFirst(parts, index, currentPath) ==
  IF index >= Len(parts) THEN <<currentPath>>
  ELSE (IF index > 0 /\ currentPath # <<>>
        THEN generatePathsMergeFirst(parts, index + 1, currentPath \o <<"-">> \o parts[index + 1])
        ELSE <<>>)
       \o generatePathsMergeFirst(parts, index + 1, currentPath \o <<"/">> \o parts[index + 1])

\* faulty variant of generatePaths: an empty segment is never merged with the
\* previous component
RECURSIVE generatePathsNoEmptyMerge(_, _, _)
generatePathsNoEmptyMerge(parts, index, currentPath) ==
  IF index >= Len(parts) THEN <<currentPath>>
  ELSE generatePathsNoEmptyMerge(parts, index + 1, currentPath \o <<"/">> \o parts[index + 1])
       \o (IF index > 0 /\ currentPath # <<>> /\ parts[index + 1] # <<>>
           THEN generatePathsNoEmptyMerge(parts, index + 1, currentPath \o <<"-">> \o parts[index + 1])
           ELSE <<>>)

\* generatePaths: the paths pushed to possiblePaths by this call, in push order.
\* index is 0-based as in the source (parts[index] is parts[index + 1] here).
RECURSIVE generatePaths(_, _, _)
generatePaths(parts, index, currentPath) ==
  IF index >= Len(parts) THEN <<currentPath>>
  ELSE generatePaths(parts, index + 1, currentPath \o <<"/">> \o parts[index + 1])
       \o (IF index > 0 /\ currentPath # <<>>
           THEN LET all       == split(currentPath, "/")
                    lastPart  == all[Len(all)]
                    pathParts == SubSeq(all, 1, Len(all) - 1)
                    newPath   == join(pathParts, <<"/">>) \o <<"/">> \o lastPart
                                   \o <<"-">> \o parts[index + 1]
                IN  generatePaths(parts, index + 1, newPath)
           ELSE <<>>)

\* faulty variant of decodeProjectPath: when nothing exists it returns the last
\* candidate instead of the simple decode
decodeProjectPathLastCandidate(dirName, fs) ==
  IF ~startsWith(dirName, <<"-">>) THEN dirName
  ELSE LET possiblePaths == generatePaths(split(slice(dirName, 1), "-"), 0, <<>>)
           hits == {k \in 1..Len(possiblePaths) : existsSync(possiblePaths[k], fs)}
       IN  IF hits # {}
           THEN possiblePaths[CHOOSE k \in hits : \A m \in hits : k <= m]
           ELSE possiblePaths[Len(possiblePaths)]

\* faulty variant of decodeProjectPath: the path found is returned normalised
\* (doubled and trailing separators removed)
decodeProjectPathNormalized(dirName, fs) ==
  IF ~startsWith(dirName, <<"-">>) THEN dirName
  ELSE LET simplePath    == <<"/">> \o replaceAll(slice(dirName, 1), "-", <<"/">>)
           possiblePaths == generatePaths(split(slice(dirName, 1), "-"), 0, <<>>)
           hits == {k \in 1..Len(possiblePaths) : existsSync(possiblePaths[k], fs)}
           found == IF existsSync(simplePath, fs) \/ hits = {} THEN simplePath
                    ELSE possiblePaths[CHOOSE k \in hits : \A m \in hits : k <= m]
       IN  <<"/">> \o join(Normalize(found), <<"/">>)

\* faulty variant of decodeProjectPath: the test for the leading "-" is missing,
\* so every name is decoded
decodeProjectPathAlwaysDecodes(dirName, fs) ==
  LET simplePath == <<"/">> \o replaceAll(slice(dirName, 1), "-", <<"/">>)
  IN  IF existsSync(simplePath, fs) THEN simplePath
      ELSE LET possiblePaths == generatePaths(split(slice(dirName, 1), "-"), 0, <<>>)
               hits == {k \in 1..Len(possiblePaths) : existsSync(possiblePaths[k], fs)}
           IN  IF hits # {}
               THEN possiblePaths[CHOOSE k \in hits : \A m \in hits : k <= m]
               ELSE simplePath

decodeProjectPath(dirName, fs) ==
  IF ~startsWith(dirName, <<"-">>) THEN dirName
  ELSE LET simplePath == <<"/">> \o replaceAll(slice(dirName, 1), "-", <<"/">>)
       IN  IF existsSync(simplePath, fs) THEN simplePath
           ELSE LET segments      == split(slice(dirName, 1), "-")
                    possiblePaths == generatePaths(segments, 0, <<>>)
                    hits == {k \in 1..Len(possiblePaths) : existsSync(possiblePaths[k], fs)}
                IN  IF hits # {}
                    THEN possiblePaths[CHOOSE k \in hits : \A m \in hits : k <= m]
                    ELSE simplePath

\* the local possiblePaths of decodeProjectPath when it returns: empty when an
\* early return came before generatePaths(segments, 0, '') was called
possiblePathsAtReturn(dirName, fs) ==
  IF ~startsWith(dirName, <<"-">>) THEN <<>>
  ELSE IF existsSync(<<"/">> \o replaceAll(slice(dirName, 1), "-", <<"/">>), fs) THEN <<>>
  ELSE generatePaths(split(slice(dirName, 1), "-"), 0, <<>>)

\* ----------------------------------------------------------- matchesPattern
\* The source text of the regular expression: the three chained replace calls.
globToRegexSource(pattern) ==
  replaceAll(replaceAll(replaceAll(pattern, ".", <<"\\", ".">>), "*", <<".", "*">>), "?", <<".">>)

\* Characters the regular expression atom "." does not match (no s flag).
LineTerminators == {"\n", "\r"}

\* The tokens of a regular-expression source over the characters modelled here:
\* "\" escapes the next character, "." is the any-character atom, "*" and "+" are
\* quantifiers, "|" separates alternatives, "(" opens a group; every other
\* character is a literal atom.
RECURSIVE regexTokens(_)
regexTokens(src) ==
  IF src = <<>> THEN <<>>
  ELSE IF Head(src) = "\\"
       THEN IF Len(src) >= 2
            THEN <<[t |-> "lit", c |-> src[2]]>> \o regexTokens(slice(src, 2))
            ELSE <<[t |-> "bad", c |-> "\\"]>>
       ELSE <<[t |-> (CASE Head(src) = "." -> "any"
                        [] Head(src) = "*" -> "star"
                        [] Head(src) = "+" -> "plus"
                        [] Head(src) = "|" -> "bar"
                        [] Head(src) = "(" -> "open"
                        [] OTHER -> "lit"),
               c |-> Head(src)]>> \o regexTokens(Tail(src))

\* The alternatives of a token list: the runs of tokens between "|" tokens.
RECURSIVE regexAlternatives(_)
regexAlternatives(toks) ==
  IF \E k \in 1..Len(toks) : toks[k].t = "bar"
  THEN LET k == CHOOSE k \in 1..Len(toks) :
                  toks[k].t = "bar" /\ \A m \in 1..(k - 1) : toks[m].t # "bar"
       IN  <<SubSeq(toks, 1, k - 1)>> \o regexAlternatives(SubSeq(toks, k + 1, Len(toks)))
  ELSE <<toks>>

IsQuantifier(tok) == tok.t \in {"star", "plus"}
IsAtom(tok) == tok.t \in {"lit", "any"}

\* new RegExp(source) throws SyntaxError: a group that is never closed, an
\* escape with nothing after it, or a quantifier with nothing to repeat (at the
\* start of an alternative, where only an assertion may precede it, or after
\* another quantifier).
regexSyntaxError(toks) ==
  \/ \E k \in 1..Len(toks) : toks[k].t \in {"open", "bad"}
  \/ \E k \in 1..Len(toks) : IsQuantifier(toks[k]) /\ (k = 1 \/ ~IsAtom(toks[k - 1]))

\* The terms of one alternative: each atom with its quantifier ("one" if none).
RECURSIVE regexTerms(_)
regexTerms(toks) ==
  IF toks = <<>> THEN <<>>
  ELSE IF Len(toks) >= 2 /\ IsQuantifier(toks[2])
       THEN <<[t |-> toks[1].t, c |-> toks[1].c, q |-> toks[2].t]>> \o regexTerms(slice(toks, 2))
       ELSE <<[t |-> toks[1].t, c |-> toks[1].c, q |-> "one"]>> \o regexTerms(Tail(toks))

atomMatches(term, ch) ==
  IF term.t = "any" THEN ch \notin LineTerminators ELSE ch = term.c

\* whether the terms match exactly the string s
RECURSIVE termsMatch(_, _)
termsMatch(terms, s) ==
  IF terms = <<>> THEN s = <<>>
  ELSE LET term == Head(terms)
       IN  CASE term.q = "one" ->
                  s # <<>> /\ atomMatches(term, s[1]) /\ termsMatch(Tail(terms), Tail(s))
             [] term.q = "star" ->
                  \/ termsMatch(Tail(terms), s)
                  \/ s # <<>> /\ atomMatches(term, s[1]) /\ termsMatch(terms, Tail(s))
             [] term.q = "plus" ->
                  s # <<>> /\ atomMatches(term, s[1])
                  /\ termsMatch(<<[term EXCEPT !.q = "star"]>> \o Tail(terms), Tail(s))

\* RegExp.prototype.test for the expression "^" + source + "$" (no flags): some
\* alternative matches some substring; "^" belongs to the first alternative and
\* "$" to the last one.
regexTest(src, s) ==
  LET alts == regexAlternatives(regexTokens(src))
      n    == Len(alts)
  IN  \E a \in 1..n : \E i \in 0..Len(s) : \E j \in i..Len(s) :
        /\ (a = 1 => i = 0)
        /\ (a = n => j = Len(s))
        /\ termsMatch(regexTerms(alts[a]), SubSeq(s, i + 1, j))

\* options.projectFilter: absent (undefined), or a string
NoFilter == [present |-> FALSE, glob |-> <<>>]
Filter(glob) == [present |-> TRUE, glob |-> glob]

\* !pattern: undefined and the empty string are falsy
patternIsFalsy(pattern) == ~pattern.present \/ pattern.glob = <<>>

\* whether matchesPattern throws (the SyntaxError of new RegExp)
matchesPatternThrows(pattern) ==
  ~patternIsFalsy(pattern) /\ regexSyntaxError(regexTokens(globToRegexSource(pattern.glob)))

\* the value matchesPattern returns when it does not throw
matchesPattern(path, pattern) ==
  IF patternIsFalsy(pattern) THEN TRUE
  ELSE regexTest(globToRegexSource(pattern.glob), path)

\* ----------------------------------------------------------- scanTranscripts
\* homedir(): the home directory the os module reports
HomeDir == <<"/", "h">>

\* path.join of a directory and a name that holds no separator and is neither
\* "." nor ".." (what readdir returns): nothing to normalise
pathJoin(dir, name) == dir \o <<"/">> \o name

projectsDir == pathJoin(pathJoin(HomeDir, <<".", "c", "l", "a", "u", "d", "e">>), <<"p", "r", "o", "j", "e", "c", "t", "s">>)

SessionsIndex == <<"s", "e", "s", "s", "i", "o", "n", "s", "-", "i", "n", "d", "e", "x", ".", "j", "s", "o", "n">>
JsonlExt == <<".", "j", "s", "o", "n", "l">>

HexChars == {"a", "b", "c", "d", "e", "f", "0", "1", "2", "3", "4", "5", "6", "7", "8", "9"}

\* UUID_REGEX: the lengths of the five groups of [a-f0-9], joined by "-"
UuidGroups == <<8, 4, 4, 4, 12>>

RECURSIVE groupsMatch(_, _)
groupsMatch(groups, s) ==
  LET n == Head(groups)
  IN  /\ Len(s) >= n
      /\ \A k \in 1..n : s[k] \in HexChars
      /\ IF Len(groups) = 1 THEN Len(s) = n
         ELSE Len(s) > n /\ s[n + 1] = "-" /\ groupsMatch(Tail(groups), slice(s, n + 1))

\* faulty variant of UUID_REGEX.test: the expression with the i flag
uuidRegexTestIgnoreCase(s) ==
  groupsMatch(UuidGroups, [k \in 1..Len(s) |-> IF s[k] = "A" THEN "a" ELSE s[k]])

\* UUID_REGEX.test
uuidRegexTest(s) == groupsMatch(UuidGroups, s)

\* String.prototype.replace(sub, r) with a string sub: the first occurrence only
replaceFirst(s, sub, r) ==
  LET at == {k \in 1..(Len(s) - Len(sub) + 1) : SubSeq(s, k, k + Len(sub) - 1) = sub}
  IN  IF at = {} THEN s
      ELSE LET k == CHOOSE k \in at : \A m \in at : k <= m
           IN  SubSeq(s, 1, k - 1) \o r \o SubSeq(s, k + Len(sub), Len(s))

\* const sessionId = fileName.replace('.jsonl', '')
sessionIdOf(fileName) == replaceFirst(fileName, JsonlExt, <<>>)

\* the two guards before the stat: a file that passes is stat'ed
passesNameChecks(fileName) ==
  /\ ~(fileName = SessionsIndex \/ ~endsWith(fileName, JsonlExt))
  /\ uuidRegexTest(sessionIdOf(fileName))

\* the inner for loop from position `from`: the index of the next file that is
\* stat'ed, 0 when the loop ends
seekFile(files, from) ==
  LET ok == {k \in from..Len(files) : passesNameChecks(files[k])}
  IN  IF ok = {} THEN 0 ELSE CHOOSE k \in ok : \A m \in ok : k <= m

\* the outer for loop from position `from`: it stops at the first directory
\* entry; matchesPattern throws there, or the entry is listed, or it is skipped
RECURSIVE seekEntry(_, _, _, _)
seekEntry(ents, from, pattern, fs) ==
  IF from > Len(ents) THEN [kind |-> "end", idx |-> 0]
  ELSE IF ~ents[from].isDirectory THEN seekEntry(ents, from + 1, pattern, fs)
  ELSE IF matchesPatternThrows(pattern) THEN [kind |-> "throw", idx |-> from]
  ELSE IF ~matchesPattern(decodeProjectPath(ents[from].name, fs), pattern)
       THEN seekEntry(ents, from + 1, pattern, fs)
  ELSE [kind |-> "list", idx |-> from]

\* options.minDate && fileStats.mtime < options.minDate
dateFilterSkips(mtime, date) == date.present /\ mtime < date.time

\* transcripts.reduce((sum, t) => sum + t.fileSize, 0)
RECURSIVE reduceSize(_)
reduceSize(trs) == IF trs = <<>> THEN 0 ELSE reduceSize(SubSeq(trs, 1, Len(trs) - 1)) + trs[Len(trs)].fileSize

\* the object pushed to transcripts
TranscriptFile(path, dir, fileName, st) ==
  [projectPath  |-> path,
   projectDir   |-> dir,
   sessionId    |-> sessionIdOf(fileName),
   filePath     |-> pathJoin(pathJoin(projectsDir, dir), fileName),
   fileSize     |-> st.size,
   modifiedTime |-> st.mtime]

\* the result returned by the catch block
EmptyResult == [transcripts |-> <<>>, totalSize |-> 0, projectCount |-> 0]

\* faulty variant of the final result: projectCount counts records
FinalResultCountsRecords(trs, dirs) ==
  [transcripts |-> trs, totalSize |-> reduceSize(trs), projectCount |-> Len(trs)]

\* the result returned after the loops
FinalResult(trs, dirs) ==
  [transcripts |-> trs, totalSize |-> reduceSize(trs), projectCount |-> Cardinality(dirs)]

\* ----------------------------------------------------------------- state
VARIABLES
  dirName,      \* decodeProjectPath alone: its argument
  existing,     \* the filesystem existsSync probes
  decodePc,     \* "call" before decodeProjectPath has run, "return" after
  decoded,      \* decodeProjectPath alone: its return value
  decodePaths,  \* decodeProjectPath alone: its local possiblePaths at the return
  matchPath,    \* matchesPattern alone: its arguments
  matchPattern,
  matchPc,      \* "call", then "return" or "throw"
  matchResult,  \* matchesPattern alone: its return value
  filter,       \* options.projectFilter
  minDate,      \* options.minDate
  pc,           \* scanTranscripts: the await it is suspended at, or how it ended
  entries,      \* scanTranscripts: its locals
  entryIdx,
  projectDir,
  projectPath,
  projectFiles,
  fileIdx,
  transcripts,
  projectDirs,
  result,       \* the ScanResult the promise resolves to  (pc = "returned")
  error,        \* the error the promise rejects with      (pc = "thrown")
  io            \* history: every readdir and stat call made so far, with its outcome

decodeVars == <<dirName, decodePc, decoded, decodePaths>>
matchVars == <<matchPath, matchPattern, matchPc, matchResult>>
optionVars == <<filter, minDate>>
scanVars == <<pc, entries, entryIdx, projectDir, projectPath, projectFiles, fileIdx,
              transcripts, projectDirs, result, error, io>>
vars == <<decodeVars, existing, matchVars, optionVars, scanVars>>

NoError == [name |-> "", code |-> ""]
\* a rejected fs call: an Error with an errno code
FsError(code) == [name |-> "Error", code |-> code]
\* the SyntaxError of new RegExp: it has no code property
RegExpSyntaxError == [name |-> "SyntaxError", code |-> "undefined"]

\* the promise has not resolved: no ScanResult yet
NoResult == [transcripts |-> <<>>, totalSize |-> -1, projectCount |-> -1]

DecodeIdle == dirName = <<>> /\ decodePc = "idle" /\ decoded = <<>> /\ decodePaths = <<>>
MatchIdle ==
  matchPath = <<>> /\ matchPattern = NoFilter /\ matchPc = "idle" /\ matchResult = FALSE
ScanStart ==
  /\ entries = <<>> /\ entryIdx = 0 /\ projectDir = <<>> /\ projectPath = <<>>
  /\ projectFiles = <<>> /\ fileIdx = 0 /\ transcripts = <<>> /\ projectDirs = {}
  /\ result = NoResult /\ error = NoError /\ io = <<>>
ScanIdle ==
  filter = NoFilter /\ minDate = [present |-> FALSE, time |-> 0] /\ pc = "idle" /\ ScanStart

SeqsUpTo(S, n) == UNION {[1..k -> S] : k \in 0..n}

\* ------------------------------------------- inputs of decodeProjectPath
NameChars == {"-", "a", "b"}

EncodedNames == SeqsUpTo(NameChars, MaxNameLen) \ {<<>>}

\* every way to write the segments of an encoded name with "/" or "-" at each
\* segment boundary: the paths a directory with that encoded name can have
RECURSIVE Interleave(_, _)
Interleave(segs, seps) ==
  IF Len(segs) = 1 THEN segs[1]
  ELSE segs[1] \o <<seps[1]>> \o Interleave(Tail(segs), Tail(seps))

Readings(name) ==
  LET segs == split(slice(name, 1), "-")
  IN  {<<"/">> \o Interleave(segs, seps) : seps \in [1..(Len(segs) - 1) -> {"/", "-"}]}

Prefixes(p) == {SubSeq(p, 1, k) : k \in 1..Len(p)}

\* the subsets of S with at most n elements
RECURSIVE SubsetsUpTo(_, _)
SubsetsUpTo(S, n) ==
  IF n = 0 THEN {{}}
  ELSE LET smaller == SubsetsUpTo(S, n - 1)
       IN  smaller \cup {m \cup {x} : m \in smaller, x \in S}

\* the filesystems left by at most MaxExisting calls of mkdir -p, each on a
\* reading of name or on an ancestor directory of one
Filesystems(name) ==
  LET pool == UNION {Prefixes(Normalize(r)) :
                 r \in Readings(IF startsWith(name, <<"-">>) THEN name ELSE <<"-">> \o name)}
  IN  {UNION {Prefixes(p) : p \in made} : made \in SubsetsUpTo(pool, MaxExisting)}

DecodeInit ==
  /\ dirName \in EncodedNames
  /\ existing \in Filesystems(dirName)
  /\ decodePc = "call"
  /\ decoded = <<>>
  /\ decodePaths = <<>>
  /\ MatchIdle
  /\ ScanIdle

Decode ==
  /\ decodePc = "call"
  /\ decoded' = decodeProjectPath(dirName, existing)
  /\ decodePaths' = possiblePathsAtReturn(dirName, existing)
  /\ decodePc' = "return"
  /\ UNCHANGED <<dirName, existing, matchVars, optionVars, scanVars>>

DecodeNext == Decode

SpecDecode == DecodeInit /\ [][DecodeNext]_vars

\* ---------------------------------------------- inputs of matchesPattern
PathChars == {"/", "a", ".", "+"}
PatternChars == {"/", "a", ".", "*", "?", "+", "|", "("}

MatchInit ==
  /\ matchPath \in SeqsUpTo(PathChars, MaxPathLen)
  /\ matchPattern \in {NoFilter} \cup {Filter(g) : g \in SeqsUpTo(PatternChars, MaxPatLen)}
  /\ matchPc = "call"
  /\ matchResult = FALSE
  /\ existing = {}
  /\ DecodeIdle
  /\ ScanIdle

Match ==
  /\ matchPc = "call"
  /\ IF matchesPatternThrows(matchPattern)
     THEN matchPc' = "throw" /\ matchResult' = matchResult
     ELSE matchPc' = "return" /\ matchResult' = matchesPattern(matchPath, matchPattern)
  /\ UNCHANGED <<matchPath, matchPattern, decodeVars, existing, optionVars, scanVars>>

MatchNext == Match

SpecMatch == MatchInit /\ [][MatchNext]_vars

\* ---------------------------------------------- inputs of scanTranscripts
DirA == <<"-", "a">>
DirAB == <<"-", "a", "-", "b">>
NotADir == <<"-", "b">>

\* what the root listing can hold: two directories and one plain file
EntryPool ==
  {[name |-> n, isDirectory |-> TRUE] : n \in {DirA, DirAB}}
    \cup {[name |-> NotADir, isDirectory |-> FALSE]}

Uuid1 == <<"a", "1", "b", "2", "c", "3", "d", "4", "-", "e", "5", "f", "6", "-", "7", "8", "9", "0", "-", "a", "b", "c", "d", "-", "e", "f", "1", "2", "3", "4", "5", "6", "7", "8", "9", "0">>
Uuid2 == <<"b", "2", "c", "3", "d", "4", "e", "5", "-", "f", "6", "a", "7", "-", "8", "9", "0", "1", "-", "b", "c", "d", "e", "-", "f", "1", "2", "3", "4", "5", "6", "7", "8", "9", "0", "1">>
\* almost a UUID: an upper-case digit
NotUuid == <<"A", "1", "b", "2", "c", "3", "d", "4", "-", "e", "5", "f", "6", "-", "7", "8", "9", "0", "-", "a", "b", "c", "d", "-", "e", "f", "1", "2", "3", "4", "5", "6", "7", "8", "9", "0">>

\* what a project directory can hold
FileNamePool ==
  {Uuid1 \o JsonlExt, Uuid2 \o JsonlExt, NotUuid \o JsonlExt, SessionsIndex}

Injective(seq) == \A a, b \in 1..Len(seq) : a # b => seq[a] # seq[b]

ErrorCodes == {"ENOENT", "EACCES"}
Times == {1, 2}

\* the outcomes of readdir(projectsDir, {withFileTypes: true})
RootListings ==
  {l \in SeqsUpTo(EntryPool, MaxEntries) : Injective([k \in 1..Len(l) |-> l[k].name])}
\* the outcomes of readdir(fullProjectPath)
DirListings == {l \in SeqsUpTo(FileNamePool, MaxFiles) : Injective(l)}
\* the outcomes of stat(filePath) that are not an error: an older file of one
\* byte and a newer file of two bytes
Stats == {[size |-> 1, mtime |-> 1], [size |-> 2, mtime |-> 2]}

\* options.projectFilter: absent, a glob with "*", a pattern holding "+", and a
\* pattern holding "("
ScanFilters ==
  {NoFilter, Filter(<<"/", "a", "-", "*">>), Filter(<<"/", "a", "+">>), Filter(<<"(">>)}
ScanDates == {[present |-> FALSE, time |-> 0]} \cup {[present |-> TRUE, time |-> t] : t \in Times}
\* the filesystem existsSync probes during a scan: /a-b exists, /a and /a/b do not
ScanFilesystem == Prefixes(<<<<"a", "-", "b">>>>)

Init ==
  /\ filter \in ScanFilters
  /\ minDate \in ScanDates
  /\ existing = ScanFilesystem
  /\ pc = "readdirRoot"
  /\ ScanStart
  /\ DecodeIdle
  /\ MatchIdle

\* one readdir or stat call in the history
IoEvent(op, entry, file, err, names, st) ==
  [op |-> op, entry |-> entry, file |-> file, err |-> err, names |-> names,
   size |-> st.size, mtime |-> st.mtime]
NoStat == [size |-> 0, mtime |-> 0]

\* faulty variant of the catch block: every error is rethrown
CatchRethrowsAll(err) == pc' = "thrown" /\ error' = err /\ result' = result

\* the catch block
Catch(err) ==
  IF err.code = "ENOENT"
  THEN pc' = "returned" /\ result' = EmptyResult /\ error' = error
  ELSE pc' = "thrown" /\ error' = err /\ result' = result

\* the outer loop continues at entry `from`, with the transcripts and the
\* contributing directories collected so far
ContinueEntries(ents, from, trs, dirs) ==
  LET nxt == seekEntry(ents, from, filter, existing)
  IN  /\ entryIdx' = nxt.idx
      /\ projectFiles' = <<>>
      /\ fileIdx' = 0
      /\ CASE nxt.kind = "list" ->
                /\ pc' = "readdirProject"
                /\ projectDir' = ents[nxt.idx].name
                /\ projectPath' = decodeProjectPath(ents[nxt.idx].name, existing)
                /\ UNCHANGED <<result, error>>
           [] nxt.kind = "throw" ->
                /\ projectDir' = ents[nxt.idx].name
                /\ projectPath' = decodeProjectPath(ents[nxt.idx].name, existing)
                /\ Catch(RegExpSyntaxError)
           [] nxt.kind = "end" ->
                /\ pc' = "returned"
                /\ result' = FinalResult(trs, dirs)
                /\ UNCHANGED <<projectDir, projectPath, error>>

\* the inner loop continues at file `from` of the listing `files`
ContinueFiles(files, from, trs, dirs) ==
  LET k == seekFile(files, from)
  IN  IF k # 0
      THEN /\ pc' = "stat"
           /\ fileIdx' = k
           /\ projectFiles' = files
           /\ UNCHANGED <<entryIdx, projectDir, projectPath, result, error>>
      ELSE ContinueEntries(entries, entryIdx + 1, trs, dirs)

\* await readdir(projectsDir, {withFileTypes: true}) settles
ReaddirRootFails ==
  /\ pc = "readdirRoot"
  /\ \E code \in ErrorCodes :
       /\ io' = Append(io, IoEvent("readdir", 0, 0, code, <<>>, NoStat))
       /\ Catch(FsError(code))
  /\ UNCHANGED <<entries, entryIdx, projectDir, projectPath, projectFiles, fileIdx,
                 transcripts, projectDirs>>
  /\ UNCHANGED <<decodeVars, existing, matchVars, optionVars>>

ReaddirRoot ==
  /\ pc = "readdirRoot"
  /\ \E l \in RootListings :
       /\ io' = Append(io, IoEvent("readdir", 0, 0, "", [k \in 1..Len(l) |-> l[k].name], NoStat))
       /\ entries' = l
       /\ ContinueEntries(l, 1, transcripts, projectDirs)
  /\ UNCHANGED <<transcripts, projectDirs>>
  /\ UNCHANGED <<decodeVars, existing, matchVars, optionVars>>

\* await readdir(fullProjectPath) settles
ReaddirProjectFails ==
  /\ pc = "readdirProject"
  /\ \E code \in ErrorCodes :
       /\ io' = Append(io, IoEvent("readdir", entryIdx, 0, code, <<>>, NoStat))
       /\ Catch(FsError(code))
  /\ UNCHANGED <<entries, entryIdx, projectDir, projectPath, projectFiles, fileIdx,
                 transcripts, projectDirs>>
  /\ UNCHANGED <<decodeVars, existing, matchVars, optionVars>>

ReaddirProject ==
  /\ pc = "readdirProject"
  /\ \E l \in DirListings :
       /\ io' = Append(io, IoEvent("readdir", entryIdx, 0, "", l, NoStat))
       /\ ContinueFiles(l, 1, transcripts, projectDirs)
  /\ UNCHANGED <<entries, transcripts, projectDirs>>
  /\ UNCHANGED <<decodeVars, existing, matchVars, optionVars>>

\* await stat(filePath) settles
StatFails ==
  /\ pc = "stat"
  /\ \E code \in ErrorCodes :
       /\ io' = Append(io, IoEvent("stat", entryIdx, fileIdx, code, <<>>, NoStat))
       /\ Catch(FsError(code))
  /\ UNCHANGED <<entries, entryIdx, projectDir, projectPath, projectFiles, fileIdx,
                 transcripts, projectDirs>>
  /\ UNCHANGED <<decodeVars, existing, matchVars, optionVars>>

Stat ==
  /\ pc = "stat"
  /\ \E st \in Stats :
       LET skip == dateFilterSkips(st.mtime, minDate)
           trs  == IF skip THEN transcripts
                   ELSE Append(transcripts,
                               TranscriptFile(projectPath, projectDir, projectFiles[fileIdx], st))
           dirs == IF skip THEN projectDirs ELSE projectDirs \cup {projectDir}
       IN  /\ io' = Append(io, IoEvent("stat", entryIdx, fileIdx, "", <<>>, st))
           /\ transcripts' = trs
           /\ projectDirs' = dirs
           /\ ContinueFiles(projectFiles, fileIdx + 1, trs, dirs)
  /\ UNCHANGED entries
  /\ UNCHANGED <<decodeVars, existing, matchVars, optionVars>>

Next ==
  \/ ReaddirRootFails
  \/ ReaddirRoot
  \/ ReaddirProjectFails
  \/ ReaddirProject
  \/ StatFails
  \/ Stat

Spec == Init /\ [][Next]_vars

\* ------------------------------------------------------------------ claims
\* The glob reading of a pattern: "*" any sequence of characters, "?" any single
\* character, every other character itself, over the whole path.
RECURSIVE GlobMatch(_, _)
GlobMatch(path, glob) ==
  IF glob = <<>> THEN path = <<>>
  ELSE CASE Head(glob) = "*" ->
              GlobMatch(path, Tail(glob)) \/ (path # <<>> /\ GlobMatch(Tail(path), glob))
         [] Head(glob) = "?" -> path # <<>> /\ GlobMatch(Tail(path), Tail(glob))
         [] OTHER -> path # <<>> /\ path[1] = Head(glob) /\ GlobMatch(Tail(path), Tail(glob))

\* the sum of fileSize over a sequence of records
RECURSIVE SumOfSizes(_)
SumOfSizes(trs) == IF trs = <<>> THEN 0 ELSE Head(trs).fileSize + SumOfSizes(Tail(trs))

Range(seq) == {seq[k] : k \in 1..Len(seq)}

\* the file names listed for entry e (the readdir of that entry in the history)
ListedFiles(e) ==
  LET at == {k \in 1..Len(io) : io[k].op = "readdir" /\ io[k].entry = e /\ io[k].err = ""}
  IN  IF at = {} THEN <<>> ELSE io[CHOOSE k \in at : TRUE].names

\* the path of the file a stat call of the history was made on
StatPath(k) ==
  projectsDir \o <<"/">> \o entries[io[k].entry].name \o <<"/">>
    \o ListedFiles(io[k].entry)[io[k].file]

\* C1: a returned ScanResult has totalSize equal to the sum of fileSize over its
\* transcripts and projectCount equal to the number of distinct projectDir
\* values among them.
C1_Aggregates ==
  pc = "returned" =>
    /\ result.totalSize = SumOfSizes(result.transcripts)
    /\ result.projectCount = Cardinality({t.projectDir : t \in Range(result.transcripts)})

\* C1 witness: two records of sizes 1 and 2 from one directory, and a second
\* directory that was listed and contributed nothing.
C1_Witness ==
  /\ pc = "returned"
  /\ Len(result.transcripts) = 2
  /\ result.transcripts[1].projectDir = result.transcripts[2].projectDir
  /\ result.transcripts[1].fileSize # result.transcripts[2].fileSize
  /\ \E k \in 1..Len(io) :
       /\ io[k].op = "readdir" /\ io[k].entry >= 1 /\ io[k].err = ""
       /\ entries[io[k].entry].name # result.transcripts[1].projectDir
  /\ result.totalSize = 3
  /\ result.projectCount = 1

\* the segments of an encoded name that begins with "-"
Segments(name) == split(slice(name, 1), "-")
\* a candidate: one choice of "/" (new component) or "-" (merge with previous)
\* at every segment boundary
BoundaryChoices(name) == [1..(Len(Segments(name)) - 1) -> {"/", "-"}]
CandidatePath(name, c) == <<"/">> \o Interleave(Segments(name), c)
ExistingChoices(name, fs) == {c \in BoundaryChoices(name) : existsSync(CandidatePath(name, c), fs)}
\* depth-first order, new component before merge: at the first boundary where
\* two candidates differ, the earlier one has "/"
EnumeratedBefore(c, d) ==
  \E k \in DOMAIN c : c[k] = "/" /\ d[k] = "-" /\ \A m \in 1..(k - 1) : c[m] = d[m]

\* C2: for a name that begins with "-", decodeProjectPath returns the existing
\* candidate that comes first in the depth-first enumeration that takes "new
\* component" before "merge with previous" (the simple decode is the first).
C2_FirstExistingCandidate ==
  (decodePc = "return" /\ startsWith(dirName, <<"-">>)
     /\ ExistingChoices(dirName, existing) # {}) =>
    \E c \in ExistingChoices(dirName, existing) :
      /\ decoded = CandidatePath(dirName, c)
      /\ \A d \in ExistingChoices(dirName, existing) \ {c} : EnumeratedBefore(c, d)

\* C2 witness: segments a, b, a with /a/b/a absent and both /a/b-a and /a-b/a
\* present; the result is /a/b-a.
C2_Witness ==
  /\ decodePc = "return"
  /\ dirName = <<"-", "a", "-", "b", "-", "a">>
  /\ <<<<"a">>, <<"b">>, <<"a">>>> \notin existing
  /\ <<<<"a">>, <<"b", "-", "a">>>> \in existing
  /\ <<<<"a", "-", "b">>, <<"a">>>> \in existing
  /\ decoded = <<"/", "a", "/", "b", "-", "a">>

\* the simple decode: the leading "-" becomes "/", and so does every other "-"
SimpleDecode(name) == [k \in 1..Len(name) |-> IF name[k] = "-" THEN "/" ELSE name[k]]

\* C3: for a name that begins with "-", when no candidate exists on the
\* filesystem decodeProjectPath returns the simple decode.
C3_FallbackIsSimpleDecode ==
  (decodePc = "return" /\ startsWith(dirName, <<"-">>)
     /\ ExistingChoices(dirName, existing) = {}) =>
    decoded = SimpleDecode(dirName)

\* C3 witness: segments a, b, a where /a/b exists but no candidate does; the
\* result is /a/b/a.
C3_Witness ==
  /\ decodePc = "return"
  /\ dirName = <<"-", "a", "-", "b", "-", "a">>
  /\ <<<<"a">>, <<"b">>>> \in existing
  /\ ExistingChoices(dirName, existing) = {}
  /\ decoded = <<"/", "a", "/", "b", "/", "a">>

\* C4: every failed readdir or stat other than the root listing failing with
\* ENOENT makes the scan reject with that same error.
C4_AnyFailureRejects ==
  \A k \in 1..Len(io) :
    (io[k].err # "" /\ ~(io[k].op = "readdir" /\ io[k].entry = 0 /\ io[k].err = "ENOENT")) =>
      (pc = "thrown" /\ error = FsError(io[k].err))

\* C5: when the root listing fails with ENOENT the scan resolves to
\* {transcripts: [], totalSize: 0, projectCount: 0} and raises nothing.
C5_RootMissingIsEmptyResult ==
  (Len(io) >= 1 /\ io[1].op = "readdir" /\ io[1].entry = 0 /\ io[1].err = "ENOENT") =>
    /\ pc = "returned"
    /\ result = [transcripts |-> <<>>, totalSize |-> 0, projectCount |-> 0]
    /\ error = NoError
    /\ Len(io) = 1

\* C5 witness: the root listing failed with ENOENT under both options.
C5_Witness ==
  /\ Len(io) = 1 /\ io[1].op = "readdir" /\ io[1].entry = 0 /\ io[1].err = "ENOENT"
  /\ filter.present /\ minDate.present
  /\ pc = "returned"

\* C6: with a projectFilter, only a directory whose decoded path matches the
\* glob over the whole path is listed, stat'ed, or contributes a record.
C6_UnmatchedDirectorySkipped ==
  filter.present =>
    /\ \A k \in 1..Len(io) :
         io[k].entry >= 1 =>
           GlobMatch(decodeProjectPath(entries[io[k].entry].name, existing), filter.glob)
    /\ \A t \in Range(transcripts) : GlobMatch(t.projectPath, filter.glob)

\* C7: in a pattern only "*" and "?" are special; every other character matches
\* itself, and evaluating the pattern never throws.
C7_OnlyStarAndQuestionAreSpecial ==
  (matchPc \in {"return", "throw"} /\ matchPattern.present) =>
    /\ matchPc = "return"
    /\ matchResult <=> GlobMatch(matchPath, matchPattern.glob)

\* C8: with a minDate, a file that was stat'ed is in the returned transcripts if
\* and only if its modification time is not earlier than minDate.
C8_DateFilter ==
  (pc = "returned" /\ minDate.present) =>
    \A k \in 1..Len(io) :
      (io[k].op = "stat" /\ io[k].err = "") =>
        ((\E t \in Range(result.transcripts) : t.filePath = StatPath(k))
           <=> io[k].mtime >= minDate.time)

\* a syntactically valid UUID: 36 characters, "-" at positions 9, 14, 19 and 24,
\* lower-case hexadecimal digits elsewhere
IsUuid(s) ==
  /\ Len(s) = 36
  /\ \A k \in 1..Len(s) :
       IF k \in {9, 14, 19, 24} THEN s[k] = "-"
       ELSE s[k] \in {"0", "1", "2", "3", "4", "5", "6", "7", "8", "9",
                      "a", "b", "c", "d", "e", "f"}

\* C9: every record has a valid UUID as sessionId and
\* <root>/<projectDir>/<sessionId>.jsonl as filePath, where projectDir is a
\* directory of the root listing and <sessionId>.jsonl a file listed in it.
C9_RecordsAreUuidFiles ==
  \A t \in Range(transcripts) \cup Range(result.transcripts) :
    /\ IsUuid(t.sessionId)
    /\ t.filePath = projectsDir \o <<"/">> \o t.projectDir \o <<"/">> \o t.sessionId
                      \o <<".", "j", "s", "o", "n", "l">>
    /\ \E e \in 1..Len(entries) :
         /\ entries[e].isDirectory
         /\ entries[e].name = t.projectDir
         /\ t.sessionId \o <<".", "j", "s", "o", "n", "l">> \in Range(ListedFiles(e))

\* C9 witness: the root listing holds a plain file and a directory, the
\* directory holds an almost-UUID .jsonl file and a UUID one; one record.
C9_Witness ==
  /\ pc = "returned"
  /\ Len(entries) = 2 /\ ~entries[1].isDirectory /\ entries[2].isDirectory
  /\ ListedFiles(2) = <<NotUuid \o JsonlExt, Uuid1 \o JsonlExt>>
  /\ Len(result.transcripts) = 1
  /\ result.transcripts[1].sessionId = Uuid1

\* the files of the history that qualify: stat'ed, and not older than minDate
QualifyingFiles ==
  {<<io[k].entry, io[k].file>> :
     k \in {n \in 1..Len(io) : /\ io[n].op = "stat" /\ io[n].err = ""
                               /\ (minDate.present => io[n].mtime >= minDate.time)}}

\* C10: the transcripts of a returned ScanResult hold one record per
\* qualifying file, in listing order (by directory, then by file), and every
\* call on one directory is made before any call on a later directory.
C10_ListingOrder ==
  /\ \A a, b \in 1..Len(io) : a < b => io[a].entry <= io[b].entry
  /\ pc = "returned" =>
       /\ Len(result.transcripts) = Cardinality(QualifyingFiles)
       /\ \E key \in [1..Len(result.transcripts) -> QualifyingFiles] :
            /\ \A n \in 1..Len(result.transcripts) :
                 result.transcripts[n].filePath =
                   projectsDir \o <<"/">> \o entries[key[n][1]].name \o <<"/">>
                     \o ListedFiles(key[n][1])[key[n][2]]
            /\ \A n \in 1..(Len(result.transcripts) - 1) :
                 \/ key[n][1] < key[n + 1][1]
                 \/ key[n][1] = key[n + 1][1] /\ key[n][2] < key[n + 1][2]

\* C11: for every encoded name that does not begin with "-", decodeProjectPath
\* returns the name unchanged, whatever the filesystem contains.
C11_PlainNameUnchanged ==
  (decodePc = "return" /\ ~startsWith(dirName, <<"-">>)) => decoded = dirName

\* C11 witness: the name a-b is returned as it is although /a/b and /a-b exist.
C11_Witness ==
  /\ decodePc = "return"
  /\ dirName = <<"a", "-", "b">>
  /\ <<<<"a">>, <<"b">>>> \in existing
  /\ <<<<"a", "-", "b">>>> \in existing
  /\ decoded = <<"a", "-", "b">>

\* the positions of the segment boundaries of an encoded name: every "-" after
\* the leading one
Boundaries(name) == {k \in 2..Len(name) : name[k] = "-"}
\* the path that has "/" at the boundaries in slashes and "-" at the others
ChoicePath(name, slashes) ==
  [k \in 1..Len(name) |-> IF k = 1 \/ k \in slashes THEN "/" ELSE name[k]]
Occurrences(seq, x) == Cardinality({k \in 1..Len(seq) : seq[k] = x})

\* C12: for a name that begins with "-" and has n segments, the list built by
\* generatePaths has exactly 2^(n-1) entries: every choice of "/" or "-" at the
\* n-1 segment boundaries exactly once, and nothing else; empty segments
\* (leading or consecutive "-") included.
C12_AllBoundaryChoicesOnce ==
  (decodePc = "return" /\ startsWith(dirName, <<"-">>)
     /\ ~existsSync(SimpleDecode(dirName), existing)) =>
    /\ Len(decodePaths) = 2 ^ Cardinality(Boundaries(dirName))
    /\ \A slashes \in SUBSET Boundaries(dirName) :
         Occurrences(decodePaths, ChoicePath(dirName, slashes)) = 1
    /\ \A k \in 1..Len(decodePaths) :
         \E slashes \in SUBSET Boundaries(dirName) :
           decodePaths[k] = ChoicePath(dirName, slashes)

\* C12 witness: the name --a--b has the segments "", a, "", b, and the list has
\* the 8 paths from //a//b to /-a--b.
C12_Witness ==
  /\ decodePc = "return"
  /\ dirName = <<"-", "-", "a", "-", "-", "b">>
  /\ Len(decodePaths) = 8
  /\ decodePaths[1] = <<"/", "/", "a", "/", "/", "b">>
  /\ decodePaths[2] = <<"/", "/", "a", "/", "-", "b">>
  /\ decodePaths[8] = <<"/", "-", "a", "-", "-", "b">>

\* the encoding of a project path as a directory name: every "/" becomes "-"
Encode(path) == [k \in 1..Len(path) |-> IF path[k] = "/" THEN "-" ELSE path[k]]
\* the directory names that can stand next to dirName in one root listing
OtherNames == SeqsUpTo(NameChars, MaxPairLen) \ {<<>>, dirName}

\* C13: for a name that begins with "-" and any filesystem, encoding the result
\* of decodeProjectPath gives the name back; and on one filesystem no other
\* directory name decodes to the same path.
C13_EncodeInvertsDecode ==
  /\ (decodePc = "return" /\ startsWith(dirName, <<"-">>)) => Encode(decoded) = dirName
  /\ (decodePc = "return" /\ Len(dirName) <= MaxPairLen) =>
       \A other \in OtherNames : decodeProjectPath(other, existing) # decoded

\* C13 witness: with /a and /a-b present and /a/b absent, -a-b decodes to /a-b,
\* which encodes to -a-b, while -a decodes to /a.
C13_Witness ==
  /\ decodePc = "return"
  /\ dirName = <<"-", "a", "-", "b">>
  /\ decoded = <<"/", "a", "-", "b">>
  /\ Encode(decoded) = dirName
  /\ <<<<"a">>>> \in existing
  /\ decodeProjectPath(<<"-", "a">>, existing) = <<"/", "a">>

====
